---- MODULE Spec2Model ----
(***************************************************************************)
(* Model of the spreadsheet-to-SQLite importer                             *)
(* (python-database1/import_excel_to_sqlite.py; python-database2 is the    *)
(* same pipeline with a five-entry column mapping).                        *)
(*                                                                         *)
(* One run of the script is: create_connection, drop_and_create_table,     *)
(* import_data (exists check, read_excel, column check, select/rename,     *)
(* drop_duplicates, dropna, where(notnull), to_sql), close.  Every stage   *)
(* is one action; the store (SQLite file) outlives a run, so a behaviour   *)
(* is a sequence of runs of the script on the same workbook.               *)
(***************************************************************************)
EXTENDS Integers, Sequences, FiniteSets, TLC

(* ---------------- bounds ---------------- *)
MaxRows == 2      \* longest enumerated workbook (data rows)
MaxRuns == 2      \* consecutive runs of the script on the same workbook

(* ---------------- cell values ---------------- *)
Blank == "<blank>"     \* a cell without a value in the workbook
NaN   == "<NaN>"       \* pandas' missing-value sentinel
None  == "<None>"      \* Python None
NULL  == "<NULL>"      \* SQL NULL

(* ---------------- configuration ---------------- *)
\* list(COLUMN_MAPPING.keys()), in declaration order (labels transliterated)
ExpectedColumns ==
    << "NianHaoGanZhiJiNian", "GongYuanJiNian", "TianWenXianXiangJiLu",
       "ShiLiaoLaiYuan", "BeiZhu", "ShiLiaoLaiYuan2" >>

COLUMN_MAPPING ==
    [ NianHaoGanZhiJiNian  |-> "reign_year_ganzhi",
      GongYuanJiNian       |-> "gregorian_date_text",
      TianWenXianXiangJiLu |-> "phenomenon_description",
      ShiLiaoLaiYuan       |-> "source_1",
      BeiZhu               |-> "remarks",
      ShiLiaoLaiYuan2      |-> "source_2" ]

Range(s) == { s[i] : i \in 1..Len(s) }

ExpectedSet == Range(ExpectedColumns)

CanonicalNames == { COLUMN_MAPPING[l] : l \in ExpectedSet }

OptionalNames == CanonicalNames \ {"reign_year_ganzhi", "gregorian_date_text"}

\* the source label that is renamed to canonical name c
LabelOf(c) == CHOOSE l \in ExpectedSet : COLUMN_MAPPING[l] = c

(* ---------------- pure steps of import_data ---------------- *)

\* variant of ReadCell: the reader keeps an empty-string cell as '' (as with
\* keep_default_na=False) and only a cell without value becomes NaN
ReadCell_KeepEmpty(c) == IF c = Blank THEN NaN ELSE c

\* pd.read_excel: the openpyxl reader hands a cell without value over as '',
\* and the default NA filter turns '' into NaN; any other text is kept.
ReadCell(c) == IF c \in {Blank, ""} THEN NaN ELSE c

\* the DataFrame of a workbook: one entry per data row, carrying the
\* RangeIndex label (0-based) that pandas keeps through every later step
ReadExcel(rows) ==
    [ i \in 1..Len(rows) |->
        [ idx |-> i - 1,
          row |-> [ c \in DOMAIN rows[i] |-> ReadCell(rows[i][c]) ] ] ]

\* variant of MissingCols: only the first missing label is collected
MissingCols_FirstOnly(actual) ==
    LET lacking == { i \in 1..Len(ExpectedColumns) : ExpectedColumns[i] \notin actual }
    IN  IF lacking = {} THEN << >>
        ELSE << ExpectedColumns[CHOOSE i \in lacking : \A j \in lacking : i <= j] >>

\* missing_cols = [col for col in expected_columns if col not in actual_columns]
RECURSIVE MissingFrom(_, _)
MissingFrom(expected, actual) ==
    IF expected = << >> THEN << >>
    ELSE (IF Head(expected) \in actual THEN << >> ELSE << Head(expected) >>)
         \o MissingFrom(Tail(expected), actual)

MissingCols(actual) == MissingFrom(ExpectedColumns, actual)

\* df[expected_columns].rename(columns=COLUMN_MAPPING)
SelectRename(frame) ==
    [ i \in 1..Len(frame) |->
        [ idx |-> frame[i].idx,
          row |-> [ c \in CanonicalNames |-> frame[i].row[LabelOf(c)] ] ] ]

\* the entries of frame at the positions in keep, from position i on, in
\* frame order
RECURSIVE Retain(_, _, _)
Retain(frame, i, keep) ==
    IF i > Len(frame) THEN << >>
    ELSE (IF i \in keep THEN << frame[i] >> ELSE << >>) \o Retain(frame, i + 1, keep)

\* variant of DropDuplicates: keep='last'
DropDuplicates_KeepLast(frame) ==
    Retain(frame, 1,
           { i \in 1..Len(frame) :
               \A j \in (i + 1)..Len(frame) :
                  frame[j].row["reign_year_ganzhi"] # frame[i].row["reign_year_ganzhi"] })

\* drop_duplicates(subset=['reign_year_ganzhi'], keep='first'); NaN keys
\* compare equal to each other and form one group
DropDuplicates(frame) ==
    Retain(frame, 1,
           { i \in 1..Len(frame) :
               \A j \in 1..(i - 1) :
                  frame[j].row["reign_year_ganzhi"] # frame[i].row["reign_year_ganzhi"] })

\* variant of DropNa: dropna() without subset, a row with any NaN is dropped
DropNa_NoSubset(frame) ==
    Retain(frame, 1,
           { i \in 1..Len(frame) :
               \A c \in DOMAIN frame[i].row : frame[i].row[c] \notin {NaN, None} })

\* dropna(subset=['gregorian_date_text'])
DropNa(frame) ==
    Retain(frame, 1,
           { i \in 1..Len(frame) :
               frame[i].row["gregorian_date_text"] \notin {NaN, None} })

\* variant of WhereNotNull: fillna(''), a missing cell becomes an empty string
WhereNotNull_FillEmpty(frame) ==
    [ i \in 1..Len(frame) |->
        [ idx |-> frame[i].idx,
          row |-> [ c \in DOMAIN frame[i].row |->
                      IF frame[i].row[c] \in {NaN, None} THEN ""
                      ELSE frame[i].row[c] ] ] ]

\* df.where(pd.notnull(df), None)
WhereNotNull(frame) ==
    [ i \in 1..Len(frame) |->
        [ idx |-> frame[i].idx,
          row |-> [ c \in DOMAIN frame[i].row |->
                      IF frame[i].row[c] \in {NaN, None} THEN None
                      ELSE frame[i].row[c] ] ] ]

(* ---------------- the store ---------------- *)

\* the value the SQLite driver binds for a DataFrame cell
SqlValue(v) == IF v \in {NaN, None} THEN NULL ELSE v

\* rows of the frame as table rows (index=False: the index is not written);
\* the strict schema numbers them from the AUTOINCREMENT sequence, a table
\* that to_sql created itself has no id column (NoId here)
NoId == 0

InsertRows(frame, schema, seq) ==
    [ i \in 1..Len(frame) |->
        [ c \in CanonicalNames \cup {"id"} |->
            IF c = "id" THEN (IF schema = "strict" THEN seq + i ELSE NoId)
            ELSE SqlValue(frame[i].row[c]) ] ]

Keys(t) == { t[i]["reign_year_ganzhi"] : i \in 1..Len(t) }

\* the constraints of CREATE TABLE: reign_year_ganzhi TEXT NOT NULL UNIQUE,
\* gregorian_date_text TEXT NOT NULL
SatisfiesConstraints(t) ==
    /\ \A i \in 1..Len(t) : /\ t[i]["reign_year_ganzhi"] # NULL
                            /\ t[i]["gregorian_date_text"] # NULL
    /\ \A i, j \in 1..Len(t) :
          i # j => t[i]["reign_year_ganzhi"] # t[j]["reign_year_ganzhi"]

\* whether the store accepts the bulk insert into the table as it stands
InsertAccepted(frame, table, schema, seq) ==
    schema = "strict" => SatisfiesConstraints(table \o InsertRows(frame, schema, seq))

(* ---------------- workbooks and prior stores ---------------- *)

KeyCells  == {Blank, "", "A1", "B2"}
DateCells == {Blank, "", "d1"}
TextCells == {Blank, "x"}

\* a data row of a workbook that has exactly the expected columns
SheetRow(k, d, p) ==
    [ c \in ExpectedSet |->
        CASE c = "NianHaoGanZhiJiNian"  -> k
          [] c = "GongYuanJiNian"       -> d
          [] c = "TianWenXianXiangJiLu" -> p
          [] c = "ShiLiaoLaiYuan"       -> "s"
          [] OTHER                      -> Blank ]

SheetRows == { SheetRow(k, d, p) : k \in KeyCells, d \in DateCells, p \in TextCells }

SeqsUpTo(S, n) == UNION { [1..m -> S] : m \in 0..n }

Workbook(cols, rows) == [kind |-> "xlsx", cols |-> cols, rows |-> rows]

\* workbooks with exactly the expected columns
FullWorkbooks == { Workbook(ExpectedSet, rows) : rows \in SeqsUpTo(SheetRows, MaxRows) }

\* workbooks with any subset of the expected columns, with or without a
\* column the mapping does not name, and zero or one data row
PartialWorkbooks ==
    { Workbook(cols, rows) :
        cols \in SUBSET (ExpectedSet \cup {"Extra"}),
        rows \in { << >> } }
    \cup
    { Workbook(cols, << [c \in cols |-> "v"] >>) :
        cols \in SUBSET (ExpectedSet \cup {"Extra"}) }

\* the five-row scenario: rows 2 and 4 share key "A1", row 3 has no date,
\* row 5 has a blank optional cell; the sheet has an unmapped column too
ScenarioRow(k, d, p) ==
    [ c \in ExpectedSet \cup {"Extra"} |->
        IF c = "Extra" THEN "e" ELSE SheetRow(k, d, p)[c] ]

Scenario5 ==
    Workbook(ExpectedSet \cup {"Extra"},
             << ScenarioRow("K1", "d1", "p1"), ScenarioRow("A1", "d2", "p2"),
                ScenarioRow("K3", Blank, "p3"), ScenarioRow("A1", "d4", "p4"),
                ScenarioRow("K5", "d5", Blank) >>)

\* what XLSX_FILE can be: absent, not readable as a workbook, or a workbook
Sources ==
    { [kind |-> "absent", cols |-> {}, rows |-> << >>],
      [kind |-> "unreadable", cols |-> {}, rows |-> << >>] }
    \cup FullWorkbooks \cup PartialWorkbooks \cup {Scenario5}

\* a record left in the table by an earlier import
OldRecord ==
    [ c \in CanonicalNames \cup {"id"} |->
        CASE c = "id" -> 3
          [] c = "reign_year_ganzhi" -> "A1"
          [] c = "gregorian_date_text" -> "old"
          [] OTHER -> NULL ]

\* what DB_FILE can hold before the script starts: no table, an empty table
\* of an earlier run, or a table of an earlier run with a record in it
PriorStores ==
    { [schema |-> "none",   table |-> << >>,            seq |-> 0],
      [schema |-> "strict", table |-> << >>,            seq |-> 0],
      [schema |-> "strict", table |-> << OldRecord >>,  seq |-> 3] }

(* ---------------- state ---------------- *)

NotPrinted == -1

NoReport ==
    [ rows_read |-> NotPrinted, rows_after_rename |-> NotPrinted,
      duplicates_removed |-> NotPrinted, null_dates_removed |-> NotPrinted,
      imported |-> NotPrinted, missing_cols |-> << >> ]

VARIABLES
    pc,               \* position of the script
    run,              \* number of the current run of the script
    source,           \* the file at XLSX_FILE
    schema,           \* "none": no table; "strict": the CREATE TABLE of the
                      \* script; "loose": a table to_sql created itself
    table,            \* rows of TABLE_NAME, in insertion order
    seq,              \* sqlite_sequence entry of TABLE_NAME
    initOk,           \* drop_and_create_table of this run raised nothing
    df, df_selected, df_deduplicated, df_filtered, df_cleaned,
    report,           \* the counts the run has printed
    outcome,          \* how import_data ended in this run
    raised,           \* an exception left import_data in this run
    wrote,            \* to_sql was called in this run
    trace,            \* the stages this run has executed, in order
    history           \* per finished run: whether its drop_and_create_table
                      \* succeeded, and the table as the run left it

importer == << pc, run, source, schema, table, seq, initOk, df, df_selected,
               df_deduplicated, df_filtered, df_cleaned, report, outcome,
               raised, wrote, trace, history >>

store  == << schema, table, seq >>
frames == << df, df_selected, df_deduplicated, df_filtered, df_cleaned >>

\* state of the Flask service (python-flask/horizons_api1.py) while it
\* serves one get_positions request
VARIABLES
    hpc,              \* position of get_positions ("idle": no request)
    time_str,         \* the request's time argument
    elevation,        \* the request's elevation argument
    elevation_km,     \* elevation in kilometres, times 1000
    body_index,       \* number of elements of bodies the loop has handled
    calls,            \* the COMMAND of every requests.get made, in order
    positions,        \* the list the handler builds
    yielded,          \* bodies whose call returned a result text with a
                      \* complete ephemeris line, with that text, in call order
    response          \* what the handler returned

hvars == << hpc, time_str, elevation, elevation_km, body_index, calls,
            positions, yielded, response >>

NoResponse == [status |-> 0, body |-> << >>]

\* the service is not part of a run of the import script
HorizonsIdle ==
    /\ hpc = "idle"
    /\ time_str = [wellformed |-> FALSE, seconds_to_max |-> 0]
    /\ elevation = [numeric |-> FALSE, metres |-> 0]
    /\ elevation_km = 0
    /\ body_index = 0
    /\ calls = << >> /\ positions = << >> /\ yielded = << >>
    /\ response = NoResponse

Init ==
    /\ pc = "start"
    /\ run = 1
    /\ source \in Sources
    /\ \E s \in PriorStores : schema = s.schema /\ table = s.table /\ seq = s.seq
    /\ initOk = FALSE
    /\ df = << >> /\ df_selected = << >> /\ df_deduplicated = << >>
    /\ df_filtered = << >> /\ df_cleaned = << >>
    /\ report = NoReport
    /\ outcome = "running"
    /\ raised = FALSE
    /\ wrote = FALSE
    /\ trace = << >>
    /\ history = << >>
    /\ HorizonsIdle

(* ---------------- __main__ ---------------- *)

\* connection = create_connection(DB_FILE): sqlite3.connect succeeded
ConnectOk ==
    /\ pc = "start"
    /\ pc' = "init"
    /\ UNCHANGED << run, source, store, initOk, frames, report, outcome,
                    raised, wrote, trace, history >>
    /\ UNCHANGED hvars

\* sqlite3.connect raised: create_connection returns None and the script
\* prints that it terminates, without touching table or workbook
ConnectFail ==
    /\ pc = "start"
    /\ pc' = "done"
    /\ outcome' = "no_connection"
    /\ history' = Append(history, [initOk |-> initOk, table |-> table])
    /\ UNCHANGED << run, source, store, initOk, frames, report, raised,
                    wrote, trace >>
    /\ UNCHANGED hvars

\* variant of DropAndCreateOk: the rows are deleted (DELETE FROM) instead of
\* the table being dropped, so the AUTOINCREMENT sequence is not reset
DropAndCreateOk_DeleteFrom ==
    /\ pc = "init"
    /\ schema' = "strict" /\ table' = << >> /\ seq' = seq
    /\ initOk' = TRUE
    /\ trace' = Append(trace, "initializeTable")
    /\ pc' = "load"
    /\ UNCHANGED << run, source, frames, report, outcome, raised, wrote,
                    history >>
    /\ UNCHANGED hvars

\* drop_and_create_table: DROP TABLE IF EXISTS, CREATE TABLE IF NOT EXISTS
\* and commit all succeed
DropAndCreateOk ==
    /\ pc = "init"
    /\ schema' = "strict" /\ table' = << >> /\ seq' = 0
    /\ initOk' = TRUE
    /\ trace' = Append(trace, "initializeTable")
    /\ pc' = "load"
    /\ UNCHANGED << run, source, frames, report, outcome, raised, wrote,
                    history >>
    /\ UNCHANGED hvars

\* the store rejects the DROP: the except clause prints the error and the
\* function returns normally; __main__ goes on to import_data
DropFails ==
    /\ pc = "init"
    /\ initOk' = FALSE
    /\ trace' = Append(trace, "initializeTable")
    /\ pc' = "load"
    /\ UNCHANGED << run, source, store, frames, report, outcome, raised,
                    wrote, history >>
    /\ UNCHANGED hvars

\* the DROP is executed and the store rejects the CREATE: the table is
\* gone, the except clause prints the error, __main__ goes on to import_data
CreateFails ==
    /\ pc = "init"
    /\ schema' = "none" /\ table' = << >> /\ seq' = 0
    /\ initOk' = FALSE
    /\ trace' = Append(trace, "initializeTable")
    /\ pc' = "load"
    /\ UNCHANGED << run, source, frames, report, outcome, raised, wrote,
                    history >>
    /\ UNCHANGED hvars

(* ---------------- import_data ---------------- *)

\* os.path.exists(xlsx_file) is false: print and return
LoadNotFound ==
    /\ pc = "load"
    /\ source.kind = "absent"
    /\ trace' = Append(trace, "loadSource")
    /\ outcome' = "not_found"
    /\ pc' = "close"
    /\ UNCHANGED << run, source, store, initOk, frames, report, raised,
                    wrote, history >>
    /\ UNCHANGED hvars

\* pd.read_excel raises: the outermost except clause prints, the function
\* returns normally
LoadError ==
    /\ pc = "load"
    /\ source.kind = "unreadable"
    /\ trace' = Append(trace, "loadSource")
    /\ outcome' = "read_error"
    /\ pc' = "close"
    /\ UNCHANGED << run, source, store, initOk, frames, report, raised,
                    wrote, history >>
    /\ UNCHANGED hvars

\* df = pd.read_excel(xlsx_file, engine='openpyxl'); prints len(df)
LoadOk ==
    /\ pc = "load"
    /\ source.kind = "xlsx"
    /\ df' = ReadExcel(source.rows)
    /\ report' = [report EXCEPT !.rows_read = Len(source.rows)]
    /\ trace' = Append(trace, "loadSource")
    /\ pc' = "validate"
    /\ UNCHANGED << run, source, store, initOk, df_selected, df_deduplicated,
                    df_filtered, df_cleaned, outcome, raised, wrote,
                    history >>
    /\ UNCHANGED hvars

\* missing_cols is not empty: print the missing labels and return
ValidateMissing ==
    /\ pc = "validate"
    /\ MissingCols(source.cols) # << >>
    /\ report' = [report EXCEPT !.missing_cols = MissingCols(source.cols)]
    /\ trace' = Append(trace, "validateColumns")
    /\ outcome' = "missing_columns"
    /\ pc' = "close"
    /\ UNCHANGED << run, source, store, initOk, frames, raised, wrote,
                    history >>
    /\ UNCHANGED hvars

ValidateOk ==
    /\ pc = "validate"
    /\ MissingCols(source.cols) = << >>
    /\ trace' = Append(trace, "validateColumns")
    /\ pc' = "project"
    /\ UNCHANGED << run, source, store, initOk, frames, report, outcome,
                    raised, wrote, history >>
    /\ UNCHANGED hvars

\* df_selected = df[expected_columns].rename(columns=COLUMN_MAPPING)
Project ==
    /\ pc = "project"
    /\ df_selected' = SelectRename(df)
    /\ report' = [report EXCEPT !.rows_after_rename = Len(SelectRename(df))]
    /\ trace' = Append(trace, "project")
    /\ pc' = "dedup"
    /\ UNCHANGED << run, source, store, initOk, df, df_deduplicated,
                    df_filtered, df_cleaned, outcome, raised, wrote,
                    history >>
    /\ UNCHANGED hvars

\* df_deduplicated = df_selected.drop_duplicates(...);
\* duplicates_removed = rows_after_rename - rows_after_dedup
DeduplicateByKey ==
    /\ pc = "dedup"
    /\ df_deduplicated' = DropDuplicates(df_selected)
    /\ report' = [report EXCEPT !.duplicates_removed =
                     Len(df_selected) - Len(DropDuplicates(df_selected))]
    /\ trace' = Append(trace, "deduplicateByKey")
    /\ pc' = "filter"
    /\ UNCHANGED << run, source, store, initOk, df, df_selected, df_filtered,
                    df_cleaned, outcome, raised, wrote, history >>
    /\ UNCHANGED hvars

\* df_filtered = df_deduplicated.dropna(...);
\* null_dates_removed = rows_after_dedup - rows_after_dropna
FilterMissingRequired ==
    /\ pc = "filter"
    /\ df_filtered' = DropNa(df_deduplicated)
    /\ report' = [report EXCEPT !.null_dates_removed =
                     Len(df_deduplicated) - Len(DropNa(df_deduplicated))]
    /\ trace' = Append(trace, "filterMissingRequired")
    /\ pc' = "normalize"
    /\ UNCHANGED << run, source, store, initOk, df, df_selected,
                    df_deduplicated, df_cleaned, outcome, raised, wrote,
                    history >>
    /\ UNCHANGED hvars

\* df_cleaned = df_filtered.where(pd.notnull(df_filtered), None)
NormalizeNulls ==
    /\ pc = "normalize"
    /\ df_cleaned' = WhereNotNull(df_filtered)
    /\ trace' = Append(trace, "normalizeNulls")
    /\ pc' = "persist"
    /\ UNCHANGED << run, source, store, initOk, df, df_selected,
                    df_deduplicated, df_filtered, report, outcome, raised,
                    wrote, history >>
    /\ UNCHANGED hvars

\* len(df_cleaned) = 0: print that there is nothing to import
PersistNothing ==
    /\ pc = "persist"
    /\ Len(df_cleaned) = 0
    /\ trace' = Append(trace, "persist")
    /\ outcome' = "nothing_to_import"
    /\ pc' = "close"
    /\ UNCHANGED << run, source, store, initOk, frames, report, raised,
                    wrote, history >>
    /\ UNCHANGED hvars

\* df_cleaned.to_sql(TABLE_NAME, conn, if_exists='append', index=False) is
\* accepted: the rows are appended in one transaction (to a table to_sql
\* creates itself when there is none), and the success line is printed
PersistOk ==
    /\ pc = "persist"
    /\ Len(df_cleaned) > 0
    /\ InsertAccepted(df_cleaned, table, schema, seq)
    /\ LET target == IF schema = "none" THEN "loose" ELSE schema
       IN  /\ schema' = target
           /\ table' = table \o InsertRows(df_cleaned, target, seq)
           /\ seq' = IF target = "strict" THEN seq + Len(df_cleaned) ELSE seq
    /\ wrote' = TRUE
    /\ report' = [report EXCEPT !.imported = Len(df_cleaned)]
    /\ trace' = Append(trace, "persist")
    /\ outcome' = "imported"
    /\ pc' = "close"
    /\ UNCHANGED << run, source, initOk, frames, raised, history >>
    /\ UNCHANGED hvars

\* the store rejects the insert (IntegrityError): the transaction is rolled
\* back, `except sqlite3.Error` prints the error, import_data returns
\* normally
PersistRejected ==
    /\ pc = "persist"
    /\ Len(df_cleaned) > 0
    /\ ~ InsertAccepted(df_cleaned, table, schema, seq)
    /\ wrote' = TRUE
    /\ raised' = FALSE
    /\ trace' = Append(trace, "persist")
    /\ outcome' = "sqlite_error"
    /\ pc' = "close"
    /\ UNCHANGED << run, source, store, initOk, frames, report, history >>
    /\ UNCHANGED hvars

\* connection.close(); the script prints that it has finished
Close ==
    /\ pc = "close"
    /\ pc' = "done"
    /\ history' = Append(history, [initOk |-> initOk, table |-> table])
    /\ UNCHANGED << run, source, store, initOk, frames, report, outcome,
                    raised, wrote, trace >>
    /\ UNCHANGED hvars

\* the script is started again on the same workbook and database file
NextRun ==
    /\ pc = "done"
    /\ run < MaxRuns
    /\ run' = run + 1
    /\ pc' = "start"
    /\ initOk' = FALSE
    /\ df' = << >> /\ df_selected' = << >> /\ df_deduplicated' = << >>
    /\ df_filtered' = << >> /\ df_cleaned' = << >>
    /\ report' = NoReport
    /\ outcome' = "running"
    /\ raised' = FALSE
    /\ wrote' = FALSE
    /\ trace' = << >>
    /\ UNCHANGED << source, store, history >>
    /\ UNCHANGED hvars

Next ==
    \/ ConnectOk \/ ConnectFail
    \/ DropAndCreateOk \/ DropFails \/ CreateFails
    \/ LoadNotFound \/ LoadError \/ LoadOk
    \/ ValidateMissing \/ ValidateOk
    \/ Project \/ DeduplicateByKey \/ FilterMissingRequired \/ NormalizeNulls
    \/ PersistNothing \/ PersistOk \/ PersistRejected
    \/ Close \/ NextRun

vars == << importer, hvars >>

Spec == Init /\ [][Next]_vars

(* ---------------- auxiliary definitions of the properties ---------------- *)

KeyLabel  == LabelOf("reign_year_ganzhi")
DateLabel == LabelOf("gregorian_date_text")

\* the stages of a run, in the order the script calls them
StageOrder ==
    << "initializeTable", "loadSource", "validateColumns", "project",
       "deduplicateByKey", "filterMissingRequired", "normalizeNulls", "persist" >>

Ran(stage) == stage \in Range(trace)

Finished == pc \in {"close", "done"}

\* a workbook cell that holds no text
Missing(cell) == cell \in {Blank, ""}

\* position of the first data row of the workbook whose key cell reads as k
\* (a missing key reads as NULL in the table)
FirstRowWithKey(k) ==
    CHOOSE i \in 1..Len(source.rows) :
        /\ (IF Missing(source.rows[i][KeyLabel]) THEN NULL ELSE source.rows[i][KeyLabel]) = k
        /\ \A j \in 1..(i - 1) :
              (IF Missing(source.rows[j][KeyLabel]) THEN NULL ELSE source.rows[j][KeyLabel]) # k

\* the number of distinct key values of the workbook, a missing key counting
\* as one value
DistinctKeys ==
    Cardinality({ IF Missing(source.rows[i][KeyLabel]) THEN NULL
                  ELSE source.rows[i][KeyLabel] : i \in 1..Len(source.rows) })

(* ---------------- C1 ---------------- *)

\* C1: after a run whose table initialisation succeeded, no two records of
\* the table share a key-field value and every record has a non-empty
\* required field, whatever the workbook held (missing or empty keys and
\* dates included).
C1_UniqueKeyNonEmptyRequired ==
    (Finished /\ initOk) =>
        /\ \A i, j \in 1..Len(table) :
              i # j => table[i]["reign_year_ganzhi"] # table[j]["reign_year_ganzhi"]
        /\ \A i \in 1..Len(table) :
              table[i]["gregorian_date_text"] \notin {NULL, NaN, None, Blank, ""}

\* an import that removed a duplicate, met an empty-string date and
\* persisted records
C1_Witness ==
    /\ pc = "done" /\ initOk /\ outcome = "imported"
    /\ report.duplicates_removed > 0
    /\ \E i \in 1..Len(source.rows) : source.rows[i][DateLabel] = ""
    /\ Len(table) >= 1

(* ---------------- C2 ---------------- *)

\* C2: the record persisted for a key is the one of the first workbook row
\* with that key, and the rows kept by deduplication, by filtering and in
\* the table are in workbook order.
C2_FirstOccurrenceWins ==
    /\ Ran("deduplicateByKey") =>
          /\ \A i \in 1..Len(df_deduplicated) :
                /\ df_deduplicated[i] = df_selected[df_deduplicated[i].idx + 1]
                /\ \A j \in 1..df_deduplicated[i].idx :
                      df_selected[j].row["reign_year_ganzhi"]
                         # df_deduplicated[i].row["reign_year_ganzhi"]
          /\ \A i, j \in 1..Len(df_deduplicated) :
                i < j => df_deduplicated[i].idx < df_deduplicated[j].idx
    /\ (Finished /\ initOk /\ outcome = "imported") =>
          /\ \A i \in 1..Len(table) :
                LET f == FirstRowWithKey(table[i]["reign_year_ganzhi"])
                IN  \A c \in CanonicalNames :
                       table[i][c] = (IF Missing(source.rows[f][LabelOf(c)]) THEN NULL
                                      ELSE source.rows[f][LabelOf(c)])
          /\ \A i, j \in 1..Len(table) :
                i < j => FirstRowWithKey(table[i]["reign_year_ganzhi"])
                            < FirstRowWithKey(table[j]["reign_year_ganzhi"])

\* two rows with the same key and different contents, and at least two
\* records persisted
C2_Witness ==
    /\ pc = "done" /\ initOk /\ outcome = "imported"
    /\ Len(table) >= 2
    /\ \E i, j \in 1..Len(source.rows) :
          /\ i < j
          /\ source.rows[i][KeyLabel] = source.rows[j][KeyLabel]
          /\ source.rows[i] # source.rows[j]
          /\ \E t \in 1..Len(table) :
                table[t]["reign_year_ganzhi"] = source.rows[i][KeyLabel]

(* ---------------- C3 ---------------- *)

\* C3: two consecutive runs on the same workbook whose table initialisation
\* succeeded leave the same table contents (ids included), whatever the
\* database file held before the first of them.
C3_RerunIdempotent ==
    \A r \in 2..Len(history) :
        (history[r - 1].initOk /\ history[r].initOk)
            => history[r].table = history[r - 1].table

\* a second run that imported records again
C3_Witness ==
    /\ pc = "done" /\ run = 2 /\ Len(history) = 2
    /\ history[1].initOk /\ history[2].initOk
    /\ outcome = "imported"
    /\ Len(history[2].table) >= 2

(* ---------------- C4 ---------------- *)

\* C4: when the workbook lacks labels of the mapping, the run ends after the
\* column check with exactly the lacking labels reported (each once), no
\* later stage runs, to_sql is not called, and a table that was initialised
\* in this run is still empty.
C4_MissingColumnsHalt ==
    (Ran("validateColumns") /\ ExpectedSet \ source.cols # {}) =>
        /\ outcome = "missing_columns"
        /\ Range(report.missing_cols) = ExpectedSet \ source.cols
        /\ Len(report.missing_cols) = Cardinality(ExpectedSet \ source.cols)
        /\ trace = SubSeq(StageOrder, 1, 3)
        /\ df_selected = << >> /\ df_deduplicated = << >>
        /\ df_filtered = << >> /\ df_cleaned = << >>
        /\ ~ wrote
        /\ initOk => (schema = "strict" /\ table = << >>)

\* a workbook with a data row that lacks two labels and has a column the
\* mapping does not name
C4_Witness ==
    /\ pc = "done" /\ initOk /\ outcome = "missing_columns"
    /\ Cardinality(ExpectedSet \ source.cols) = 2
    /\ "Extra" \in source.cols
    /\ Len(source.rows) = 1

(* ---------------- C5 ---------------- *)

\* C5: when the store rejects the bulk insert for a constraint violation,
\* the error leaves import_data as an exception (it reaches the caller).
C5_ViolationPropagates ==
    (Finished /\ outcome = "sqlite_error") => raised

(* ---------------- C6 ---------------- *)

\* C6: the stages run in the order of StageOrder and a failed stage is the
\* last stage of its run; in particular after a failed table initialisation
\* the workbook is not loaded and to_sql is not called.
C6_OrderAndShortCircuit ==
    /\ trace = SubSeq(StageOrder, 1, Len(trace))
    /\ outcome = "not_found"       => trace = SubSeq(StageOrder, 1, 2)
    /\ outcome = "read_error"      => trace = SubSeq(StageOrder, 1, 2)
    /\ outcome = "missing_columns" => trace = SubSeq(StageOrder, 1, 3)
    /\ (Ran("initializeTable") /\ ~ initOk) =>
          (trace = SubSeq(StageOrder, 1, 1) /\ ~ wrote)

(* ---------------- C7 ---------------- *)

\* C7: when no record is left after deduplication and filtering, to_sql is
\* not called, the run ends with the nothing-to-import outcome and without
\* an exception, a table initialised in this run is empty, and the printed
\* count of rows removed for a missing date is the number of deduplicated
\* rows without a date.
C7_NothingToImport ==
    (Ran("persist") /\ Len(df_filtered) = 0) =>
        /\ ~ wrote
        /\ outcome = "nothing_to_import"
        /\ ~ raised
        /\ initOk => table = << >>
        /\ report.imported = NotPrinted
        /\ report.null_dates_removed =
              Cardinality({ i \in 1..Len(df_deduplicated) :
                              df_deduplicated[i].row["gregorian_date_text"] = NaN })
        /\ report.null_dates_removed = Len(df_deduplicated)
        /\ Len(source.rows) = 0 =>
              (report.duplicates_removed = 0 /\ report.null_dates_removed = 0)

\* every row of a non-empty workbook lacks the date, under different keys
C7_Witness ==
    /\ pc = "done" /\ initOk /\ outcome = "nothing_to_import"
    /\ report.null_dates_removed = 2
    /\ \E i \in 1..Len(source.rows) : source.rows[i][DateLabel] = ""

(* ---------------- C8 ---------------- *)

\* C8: for every workbook that passes the column check, duplicates removed =
\* rows after projection - distinct keys; rows removed for a missing date =
\* deduplicated rows without a date; rows persisted (reported, and present
\* in the freshly initialised table) = rows read - duplicates removed - rows
\* removed; and the five-row scenario gives 1, 1 and 3 with the "A1" record
\* coming from row 2.
C8_Counts ==
    (Finished /\ initOk /\ Ran("persist")) =>
        /\ report.rows_after_rename = Len(source.rows)
        /\ report.duplicates_removed = report.rows_after_rename - DistinctKeys
        /\ report.null_dates_removed =
              Cardinality({ i \in 1..Len(df_deduplicated) :
                              df_deduplicated[i].row["gregorian_date_text"] = NaN })
        /\ Len(table) = report.rows_read - report.duplicates_removed
                           - report.null_dates_removed
        /\ Len(table) > 0 => report.imported = Len(table)
        /\ source = Scenario5 =>
              /\ report.duplicates_removed = 1
              /\ report.null_dates_removed = 1
              /\ Len(table) = 3
              /\ \E t \in 1..Len(table) :
                    /\ table[t]["reign_year_ganzhi"] = "A1"
                    /\ table[t]["gregorian_date_text"] = "d2"
                    /\ table[t]["phenomenon_description"] = "p2"

(* ---------------- C9 ---------------- *)

\* C9: every optional field of a persisted record whose workbook cell was
\* missing is stored as NULL (never as a sentinel or an empty string), and
\* normalizeNulls keeps the number of records, their order and every cell
\* that is not a sentinel.
C9_NullsNormalized ==
    /\ Ran("normalizeNulls") =>
          /\ Len(df_cleaned) = Len(df_filtered)
          /\ \A i \in 1..Len(df_cleaned) :
                /\ df_cleaned[i].idx = df_filtered[i].idx
                /\ \A c \in CanonicalNames :
                      /\ df_filtered[i].row[c] # NaN
                            => df_cleaned[i].row[c] = df_filtered[i].row[c]
                      /\ df_cleaned[i].row[c] # NaN
    /\ (Finished /\ initOk /\ outcome = "imported") =>
          \A i \in 1..Len(table) : \A c \in OptionalNames :
              /\ table[i]["reign_year_ganzhi"] \in
                    { source.rows[r][KeyLabel] : r \in 1..Len(source.rows) } \ {Blank, ""}
              /\ LET cell == source.rows[FirstRowWithKey(table[i]["reign_year_ganzhi"])]
                                         [LabelOf(c)]
                 IN  /\ Missing(cell) => table[i][c] = NULL
                     /\ table[i][c] \notin {NaN, None, Blank, ""}
                     /\ ~ Missing(cell) => table[i][c] = cell

\* a persisted record with a missing optional cell and a present one
C9_Witness ==
    /\ pc = "done" /\ initOk /\ outcome = "imported"
    /\ \E i \in 1..Len(table) :
          /\ table[i]["phenomenon_description"] = NULL
          /\ table[i]["source_1"] # NULL
          /\ source.rows[FirstRowWithKey(table[i]["reign_year_ganzhi"])]
                [LabelOf("phenomenon_description")] = Blank

(* ---------------- C10 ---------------- *)

\* C10: after a successful table initialisation the rows that reach the
\* insert satisfy the constraints of the table, so the insert is never
\* rejected.
C10_PersistNeverRejected ==
    /\ (pc = "persist" /\ initOk) =>
          SatisfiesConstraints(InsertRows(df_cleaned, "strict", seq))
    /\ (Finished /\ initOk) => outcome # "sqlite_error"

(* ---------------- C11 ---------------- *)

\* C11: after a run whose table initialisation succeeded and that reached
\* the persist step, a key value of the workbook is in the table if and only
\* if the first workbook row with that key has a date; in particular a key
\* whose first row lacks the date is absent even when a later row with the
\* same key has one.
C11_FirstOccurrenceDecides ==
    (Finished /\ initOk /\ Ran("persist")) =>
        \A r \in 1..Len(source.rows) :
            LET k == IF Missing(source.rows[r][KeyLabel]) THEN NULL
                     ELSE source.rows[r][KeyLabel]
            IN  (k \in Keys(table))
                   <=> ~ Missing(source.rows[FirstRowWithKey(k)][DateLabel])

(***************************************************************************)
(* The Flask service (python-flask/horizons_api1.py): one get_positions    *)
(* request.  A Horizons result text is modelled by the parts the parsers   *)
(* look at: the "Target body name:" header line, the $$SOE / $$EOE markers *)
(* and the non-blank lines between them, each line being an optional       *)
(* timestamp followed by whitespace-separated parts.                        *)
(***************************************************************************)

\* bodies = ["1", "2", "4", "5", "6", "7", "8", "9", "10"]
bodies == << "1", "2", "4", "5", "6", "7", "8", "9", "10" >>

\* timedelta(minutes=1), in seconds
OneMinute == 60

\* parts that start with '+' or '-'
SignedParts == { "+34", "+30", "-22.3" }

StartsWithSign(part) == part \in SignedParts

UnknownName == "Unknown (parse failed)"

\* parse_target_name: the name of the first header line, without a trailing
\* "(number)"; the fixed text when there is no header line
ParseTargetName(result) ==
    IF result.target.present THEN result.target.name ELSE UnknownName

\* None where the parser would return joined parts
Nothing == << >>

NoPair == << Nothing, Nothing >>

\* parse_horizons_result: << ra, dec >>, both None when nothing is extracted;
\* ra and dec are the parts that the f-strings join with single spaces
ParseHorizonsResult(result) ==
    IF result.markers \in {"no_soe", "no_eoe"} THEN NoPair
    ELSE
      LET lines == IF result.markers = "eoe_first" THEN << >> ELSE result.lines
      IN  IF lines = << >> THEN NoPair
          ELSE
            LET data_line == lines[1]
                parts == data_line.parts
            IN  IF ~ data_line.stamp \/ Len(parts) = 0 THEN NoPair
                ELSE IF Len(parts) < 2 THEN NoPair
                ELSE IF StartsWithSign(parts[2])
                     THEN IF Len(parts) >= 6
                          THEN << SubSeq(parts, 1, 3), SubSeq(parts, 4, 6) >>
                          ELSE << << parts[1] >>, << parts[2] >> >>
                     ELSE << << parts[1] >>, << parts[2] >> >>

\* float(elevation) / 1000.0, 0.0 on ValueError (kept as metres, i.e. the
\* kilometre value times 1000)
ElevationKm(e) == IF e.numeric THEN e.metres ELSE 0

\* datetime.strptime(time_str, "%Y-%m-%dT%H:%M:%S") raises ValueError
TimeRejected(t) == ~ t.wellformed

\* start_time_dt + timedelta(minutes=1) raises OverflowError: the sum lies
\* after datetime.max (9999-12-31T23:59:59.999999)
StopTimeOverflows(t) == t.wellformed /\ t.seconds_to_max < OneMinute

(* ---------------- requests and replies ---------------- *)

Target(name) == [present |-> TRUE, name |-> name]
NoTarget == [present |-> FALSE, name |-> ""]

Line(stamp, parts) == [stamp |-> stamp, parts |-> parts]

ResultText(target, markers, lines) ==
    [target |-> target, markers |-> markers, lines |-> lines]

\* result texts: decimal degrees, a signed second part with fewer than six
\* parts, six parts with a signed second part; then texts without a usable
\* ephemeris line
ResultTexts ==
    { ResultText(Target("Mars"), "both", << Line(TRUE, << "293.70292", "30.57022" >>) >>),
      ResultText(NoTarget, "both", << Line(TRUE, << "120.5", "-22.3", "9.1" >>),
                                      Line(TRUE, << "121.5", "-22.4" >>) >>),
      ResultText(Target("Sun"), "both",
                 << Line(TRUE, << "19", "+34", "48.70", "+30", "34", "12.8" >>) >>),
      ResultText(Target("Mars"), "no_soe", << >>),
      ResultText(Target("Mars"), "no_eoe", << Line(TRUE, << "1.0", "2.0" >>) >>),
      ResultText(Target("Mars"), "eoe_first", << Line(TRUE, << "1.0", "2.0" >>) >>),
      ResultText(Target("Mars"), "both", << >>),
      ResultText(Target("Mars"), "both", << Line(FALSE, << "1.0", "2.0" >>) >>),
      ResultText(Target("Mars"), "both", << Line(TRUE, << >>) >>),
      ResultText(Target("Mars"), "both", << Line(TRUE, << "1.0" >>) >>) }

\* the time argument: not in the format, or a date-time with its distance in
\* seconds to 9999-12-31T23:59:59
TimeArgs ==
    { [wellformed |-> FALSE, seconds_to_max |-> 0] }
    \cup { [wellformed |-> TRUE, seconds_to_max |-> s] : s \in {OneMinute - 1, OneMinute} }

\* the elevation argument: a number of metres, or text float() rejects
ElevationArgs ==
    { [numeric |-> TRUE, metres |-> 1500], [numeric |-> FALSE, metres |-> 0] }

\* state of the import script while the service is looked at
ImporterOff ==
    /\ pc = "off"
    /\ run = 1
    /\ source = [kind |-> "absent", cols |-> {}, rows |-> << >>]
    /\ schema = "none" /\ table = << >> /\ seq = 0
    /\ initOk = FALSE
    /\ df = << >> /\ df_selected = << >> /\ df_deduplicated = << >>
    /\ df_filtered = << >> /\ df_cleaned = << >>
    /\ report = NoReport
    /\ outcome = "running"
    /\ raised = FALSE
    /\ wrote = FALSE
    /\ trace = << >>
    /\ history = << >>

\* a GET /get_positions has arrived
HorizonsInit ==
    /\ ImporterOff
    /\ hpc = "received"
    /\ time_str \in TimeArgs
    /\ elevation \in ElevationArgs
    /\ elevation_km = 0
    /\ body_index = 0
    /\ calls = << >> /\ positions = << >> /\ yielded = << >>
    /\ response = NoResponse

(* ---------------- get_positions ---------------- *)

\* elevation_km = float(elevation) / 1000.0, or 0.0 after ValueError
ConvertElevation ==
    /\ hpc = "received"
    /\ elevation_km' = ElevationKm(elevation)
    /\ hpc' = "time"
    /\ UNCHANGED << time_str, elevation, body_index, calls, positions,
                    yielded, response >>
    /\ UNCHANGED importer

\* strptime raises ValueError: return the error text with status 400
TimeInvalid ==
    /\ hpc = "time"
    /\ TimeRejected(time_str)
    /\ response' = [status |-> 400, body |-> << >>]
    /\ hpc' = "responded"
    /\ UNCHANGED << time_str, elevation, elevation_km, body_index, calls,
                    positions, yielded >>
    /\ UNCHANGED importer

\* strptime succeeds and start_time_dt + timedelta(minutes=1) raises
\* OverflowError, which `except ValueError` does not catch: the handler
\* ends with the exception and Flask answers 500
TimeOverflow ==
    /\ hpc = "time"
    /\ StopTimeOverflows(time_str)
    /\ response' = [status |-> 500, body |-> << >>]
    /\ hpc' = "responded"
    /\ UNCHANGED << time_str, elevation, elevation_km, body_index, calls,
                    positions, yielded >>
    /\ UNCHANGED importer

\* start_time and stop_time are computed; positions = []
TimeOk ==
    /\ hpc = "time"
    /\ ~ TimeRejected(time_str) /\ ~ StopTimeOverflows(time_str)
    /\ positions' = << >>
    /\ hpc' = "loop"
    /\ UNCHANGED << time_str, elevation, elevation_km, body_index, calls,
                    yielded, response >>
    /\ UNCHANGED importer

\* The next five actions are one iteration of `for body in bodies` whose
\* requests.get is made and whose handling ends in `continue` without an
\* entry.

\* requests.get raises a RequestException (no connection, timeout)
CallNetworkError ==
    /\ hpc = "loop"
    /\ body_index < Len(bodies)
    /\ calls' = Append(calls, bodies[body_index + 1])
    /\ body_index' = body_index + 1
    /\ UNCHANGED << hpc, time_str, elevation, elevation_km, positions,
                    yielded, response >>
    /\ UNCHANGED importer

\* response.raise_for_status() raises HTTPError
CallHttpError ==
    /\ hpc = "loop"
    /\ body_index < Len(bodies)
    /\ calls' = Append(calls, bodies[body_index + 1])
    /\ body_index' = body_index + 1
    /\ UNCHANGED << hpc, time_str, elevation, elevation_km, positions,
                    yielded, response >>
    /\ UNCHANGED importer

\* response.json() raises ValueError
CallBadJson ==
    /\ hpc = "loop"
    /\ body_index < Len(bodies)
    /\ calls' = Append(calls, bodies[body_index + 1])
    /\ body_index' = body_index + 1
    /\ UNCHANGED << hpc, time_str, elevation, elevation_km, positions,
                    yielded, response >>
    /\ UNCHANGED importer

\* the JSON has an "error" member
CallApiError ==
    /\ hpc = "loop"
    /\ body_index < Len(bodies)
    /\ calls' = Append(calls, bodies[body_index + 1])
    /\ body_index' = body_index + 1
    /\ UNCHANGED << hpc, time_str, elevation, elevation_km, positions,
                    yielded, response >>
    /\ UNCHANGED importer

\* the JSON has no "result" member
CallNoResult ==
    /\ hpc = "loop"
    /\ body_index < Len(bodies)
    /\ calls' = Append(calls, bodies[body_index + 1])
    /\ body_index' = body_index + 1
    /\ UNCHANGED << hpc, time_str, elevation, elevation_km, positions,
                    yielded, response >>
    /\ UNCHANGED importer

\* the JSON has a "result" text: it is parsed, and an entry is appended when
\* ra and dec are both not None
CallResult ==
    /\ hpc = "loop"
    /\ body_index < Len(bodies)
    /\ \E result \in ResultTexts :
          LET pair == ParseHorizonsResult(result)
              ra == pair[1]
              dec == pair[2]
              body_name == ParseTargetName(result)
          IN  /\ positions' =
                    IF ra # Nothing /\ dec # Nothing
                    THEN Append(positions, [name |-> body_name, ra |-> ra, dec |-> dec])
                    ELSE positions
              /\ yielded' =
                    IF /\ result.markers = "both"
                       /\ result.lines # << >>
                       /\ result.lines[1].stamp
                       /\ Len(result.lines[1].parts) >= 2
                    THEN Append(yielded, [body |-> bodies[body_index + 1],
                                          result |-> result])
                    ELSE yielded
    /\ calls' = Append(calls, bodies[body_index + 1])
    /\ body_index' = body_index + 1
    /\ UNCHANGED << hpc, time_str, elevation, elevation_km, response >>
    /\ UNCHANGED importer

\* return jsonify(positions)
Respond ==
    /\ hpc = "loop"
    /\ body_index = Len(bodies)
    /\ response' = [status |-> 200, body |-> positions]
    /\ hpc' = "responded"
    /\ UNCHANGED << time_str, elevation, elevation_km, body_index, calls,
                    positions, yielded >>
    /\ UNCHANGED importer

HorizonsNext ==
    \/ ConvertElevation
    \/ TimeInvalid \/ TimeOverflow \/ TimeOk
    \/ CallNetworkError \/ CallHttpError \/ CallBadJson
    \/ CallApiError \/ CallNoResult \/ CallResult
    \/ Respond

SpecHorizons == HorizonsInit /\ [][HorizonsNext]_vars

(* ---------------- C12 ---------------- *)

\* position of a body in bodies
BodyPosition(b) == CHOOSE i \in 1..Len(bodies) : bodies[i] = b

\* C12: a request with a valid time string makes exactly one call per
\* element of the nine-element list, in list order, whatever the calls
\* return, and answers with exactly one entry per body whose call returned
\* a result with RA and DEC, in list order (so at most nine); a request with
\* an invalid time string is answered 400 without any call.
C12_OneCallPerBody ==
    /\ calls = SubSeq(bodies, 1, Len(calls))
    /\ Len(bodies) = 9
    /\ (hpc = "responded" /\ time_str.wellformed) =>
          /\ calls = bodies
          /\ response.status = 200
          /\ Len(response.body) = Len(yielded)
          /\ Len(response.body) <= 9
          /\ \A i \in 1..Len(yielded) :
                /\ response.body[i].ra # Nothing
                /\ response.body[i].dec # Nothing
                /\ response.body[i].name = ParseTargetName(yielded[i].result)
                /\ response.body[i].ra[1] = yielded[i].result.lines[1].parts[1]
          /\ \A i, j \in 1..Len(yielded) :
                i < j => BodyPosition(yielded[i].body) < BodyPosition(yielded[j].body)
    /\ (hpc = "responded" /\ ~ time_str.wellformed) =>
          (response.status = 400 /\ calls = << >>)
====
